---- MODULE Spec2Model ----
(***************************************************************************)
(* Model of PMAP-unix/platform-unix.c: the serial transport (open, read,   *)
(* write, close of the single COM port) and the console reporter it uses.  *)
(*                                                                         *)
(* Every Plat* function is an operator from a machine record m (the        *)
(* module's statics, errno, the process's descriptor table, the caller's   *)
(* buffer, the console) to the machine record at its return.  The outcome  *)
(* of each OS call the function makes is an input: 0 for success or the    *)
(* errno value the failing call sets.  m.trace lists the OS calls made, in *)
(* order, and m.ret is the value returned.                                 *)
(***************************************************************************)
EXTENDS Integers, Sequences, FiniteSets, TLC

VARIABLES
    ComPortHandle,      \* static int ComPortHandle
    RxTimeout,          \* static unsigned short RxTimeout
    DebugOutputFile,    \* static FILE *DebugOutputFile (NULL or a stream id)
    errno,              \* the thread's errno
    fds,                \* descriptors of the process that are open
    buffer,             \* the caller's receive buffer (char data[BufSize])
    sink,               \* text written to the debug output file
    call,               \* the most recent call: its operation, the state it
                        \* started in, the OS calls it made, its console
                        \* output and its return value
    cmp,                \* a string comparison: its arguments and its result
    stdin,              \* the characters standard input still holds; end of
                        \* file follows them
    prompt,             \* the PlatShowMessageB call that is waiting for ENTER
    hist,               \* what the callers have done with the debug sink, and
                        \* the messages they reported meanwhile
    threads             \* threads inside PlatOpenCOMPort: where each one is,
                        \* its own errno and what it returned

vars == <<ComPortHandle, RxTimeout, DebugOutputFile, errno, fds, buffer, sink, call, cmp,
          stdin, prompt, hist, threads>>

(***************************************************************************)
(* Bounds of the model.                                                    *)
(***************************************************************************)
BufSize == 2            \* capacity of the caller's receive buffer
MaxLen == 2             \* longest string handed to PlatWriteCOMPort
MaxDir == 1             \* most entries readdir yields for /dev
MaxStr == 2             \* longest string handed to pstricmp and pstrincmp
MaxSink == 2            \* most messages reported while a sink is active
MaxOpen == 2            \* most streams open at once
MaxIn == 2              \* most characters waiting on standard input
NThreads == 2           \* threads that call PlatOpenCOMPort

(***************************************************************************)
(* Program and platform constants.                                         *)
(***************************************************************************)
NULL == 0
NoFd == -1                  \* the "closed" sentinel, also open()'s failure value
FirstFd == 3                \* 0, 1, 2 are stdin, stdout, stderr
MECHA_TASK_NORMAL_TO == 6000    \* set in base/mecha.h; any nonzero unsigned short serves
ENOENT == 2
EINTR == 4
EIO == 5
EBADF == 9
EMFILE == 24
ENOTTY == 25
USHRT_MAX == 65535
TCSANOW == 0
TCIOFLUSH == 2

Min(a, b) == IF a < b THEN a ELSE b

(***************************************************************************)
(* C strings are sequences of character codes; the terminating NUL is      *)
(* explicit where the code looks for it (strlen) and implicit past the end *)
(* of a name otherwise.                                                    *)
(***************************************************************************)
CharAt(s, i) == IF i <= Len(s) THEN s[i] ELSE 0

RECURSIVE strlenFrom(_, _)
strlenFrom(s, i) == IF s[i] = 0 THEN i - 1 ELSE strlenFrom(s, i + 1)

strlen(s) == strlenFrom(s, 1)

\* strncmp(a, b, n) == 0: the first n characters agree, the comparison
\* ending early at a NUL both strings have at the same place.
strncmpEq(a, b, n) ==
    LET stop == Min(n, Min(Len(a), Len(b)) + 1)
    IN \A i \in 1..stop : CharAt(a, i) = CharAt(b, i)

STR_ttyS == <<116, 116, 121, 83>>
STR_ttyUSB == <<116, 116, 121, 85, 83, 66>>
STR_ttyACM == <<116, 116, 121, 65, 67, 77>>
STR_cu == <<99, 117, 46>>
APPLE == FALSE              \* the build: __APPLE__ defined or not

IsSerialName(name) ==
    IF APPLE
    THEN strncmpEq(name, STR_cu, 3)
    ELSE \/ strncmpEq(name, STR_ttyS, 4)
         \/ strncmpEq(name, STR_ttyUSB, 6)
         \/ strncmpEq(name, STR_ttyACM, 6)

(***************************************************************************)
(* struct termios, as far as PlatOpenCOMPort touches it: the two speeds,   *)
(* the c_cflag and c_iflag bits it clears or sets, one c_iflag bit it      *)
(* leaves alone (ICRNL), and c_lflag and c_oflag as sets of flags.         *)
(***************************************************************************)
NoTermios ==
    [ispeed |-> "none", ospeed |-> "none", PARENB |-> FALSE, CSTOPB |-> FALSE,
     CSIZE |-> "none", CRTSCTS |-> FALSE, IXON |-> FALSE, IXOFF |-> FALSE,
     IXANY |-> FALSE, ICRNL |-> FALSE, lflag |-> {}, oflag |-> {}]

\* A line as a login session leaves it: 9600 7-E-2, flow control, cooked.
CookedTermios ==
    [ispeed |-> "B9600", ospeed |-> "B9600", PARENB |-> TRUE, CSTOPB |-> TRUE,
     CSIZE |-> "CS7", CRTSCTS |-> TRUE, IXON |-> TRUE, IXOFF |-> TRUE,
     IXANY |-> TRUE, ICRNL |-> TRUE, lflag |-> {"ICANON", "ECHO", "ISIG"},
     oflag |-> {"OPOST"}]

\* A line that is at 57600 8-N-1 already.
PlainTermios ==
    [ispeed |-> "B57600", ospeed |-> "B57600", PARENB |-> FALSE, CSTOPB |-> FALSE,
     CSIZE |-> "CS8", CRTSCTS |-> FALSE, IXON |-> FALSE, IXOFF |-> FALSE,
     IXANY |-> FALSE, ICRNL |-> FALSE, lflag |-> {}, oflag |-> {}]

\* The configuration with "c_cflag &= ~CSTOPB" left out.
PortConfig_KeepsStopBits(options) ==
    [options EXCEPT !.ispeed = "B57600", !.ospeed = "B57600",
                    !.PARENB = FALSE,
                    !.CSIZE = "CS8",
                    !.CRTSCTS = FALSE,
                    !.IXON = FALSE, !.IXOFF = FALSE, !.IXANY = FALSE,
                    !.lflag = {},
                    !.oflag = {}]

\* What PlatOpenCOMPort makes of the attributes tcgetattr gave it.
PortConfig(options) ==
    [options EXCEPT !.ispeed = "B57600", !.ospeed = "B57600",
                    !.PARENB = FALSE,
                    !.CSTOPB = FALSE,
                    !.CSIZE = "CS8",
                    !.CRTSCTS = FALSE,
                    !.IXON = FALSE, !.IXOFF = FALSE, !.IXANY = FALSE,
                    !.lflag = {},
                    !.oflag = {}]

(***************************************************************************)
(* The machine record and the OS calls.  m.options is the function's       *)
(* struct termios, m.line the attributes tcsetattr has put on the line.    *)
(***************************************************************************)
Machine ==
    [ComPortHandle |-> ComPortHandle, RxTimeout |-> RxTimeout,
     DebugOutputFile |-> DebugOutputFile, errno |-> errno, fds |-> fds,
     buffer |-> buffer, sink |-> sink,
     trace |-> <<>>, out |-> <<>>, err |-> <<>>, rv |-> 0, ret |-> 0,
     options |-> NoTermios, line |-> NoTermios]

\* One OS call fn on descriptor fd with argument a: it is appended to the
\* trace, its result is left in m.rv, and a failing call (e # 0) sets errno
\* to e.
Sys(m, fn, fd, a, res, e) ==
    [m EXCEPT !.trace = Append(@, [fn |-> fn, fd |-> fd, a |-> a, res |-> res, e |-> e]),
              !.rv = res,
              !.errno = IF e # 0 THEN e ELSE @]

LowestFree(open) == CHOOSE n \in FirstFd..(FirstFd + Cardinality(open)) :
                        /\ n \notin open
                        /\ \A k \in FirstFd..(n - 1) : k \in open

\* open(2) and opendir(3) return the lowest free descriptor, or fail.
sys_open(m, fn, e) ==
    IF e = 0
    THEN LET fd == LowestFree(m.fds)
         IN [Sys(m, fn, NoFd, 0, fd, 0) EXCEPT !.fds = @ \cup {fd}]
    ELSE Sys(m, fn, NoFd, 0, -1, e)

\* close(2) and closedir(3): the descriptor is released whether or not the
\* call reports an error (Linux and macOS release it on EINTR and EIO too).
sys_close(m, fn, fd, e) ==
    [Sys(m, fn, fd, 0, IF e = 0 THEN 0 ELSE -1, e) EXCEPT !.fds = @ \ {fd}]

\* A call that only succeeds or fails (fcntl, tcgetattr, tcsetattr, tcflush,
\* tcdrain); on a descriptor that is not open it fails with EBADF.
sys_ctl(m, fn, fd, a, e) ==
    IF fd \notin m.fds
    THEN Sys(m, fn, fd, a, -1, EBADF)
    ELSE Sys(m, fn, fd, a, IF e = 0 THEN 0 ELSE -1, e)

(***************************************************************************)
(* ConsoleReporter.                                                        *)
(***************************************************************************)
NullFormat == "(null)"      \* stands for a NULL format pointer

\* The text vprintf produces: the format with its arguments filled in.
Msg(format, d, s) == [fmt |-> format, d |-> d, s |-> s]

\* pe: the errno value the stdio call leaves behind, 0 when it leaves errno
\* alone.
PlatShowMessage(m, format, d, s, pe) ==
    IF format = NullFormat
    THEN [m EXCEPT !.err = Append(@, Msg("Error: format string is NULL\n", <<>>, <<>>))]
    ELSE LET m1 == [m EXCEPT !.out = Append(@, Msg(format, d, s)),
                             !.errno = IF pe # 0 THEN pe ELSE @]
         IN IF m1.DebugOutputFile # NULL
            THEN [m1 EXCEPT !.sink = Append(@, Msg(format, d, s))]
            ELSE m1

Return(m, value) == [m EXCEPT !.ret = value]

(***************************************************************************)
(* PlatOpenCOMPort.                                                        *)
(***************************************************************************)
RECURSIVE ReadDirLoop(_, _, _, _)
ReadDirLoop(m, dirfd, entries, pe) ==
    IF entries = <<>>
    THEN Sys(m, "readdir", dirfd, 0, 0, 0)          \* readdir returns NULL
    ELSE LET m1 == Sys(m, "readdir", dirfd, 0, 1, 0)
             name == Head(entries)
             m2 == IF IsSerialName(name)
                   THEN PlatShowMessage(m1, "/dev/%s\n", <<>>, name, pe)
                   ELSE m1
         IN ReadDirLoop(m2, dirfd, Tail(entries), pe)

ListSerialDevices(m, os) ==
    LET m1 == PlatShowMessage(m, "Available serial devices in /dev/:\n", <<>>, <<>>, os.printf)
        m2 == sys_open(m1, "opendir", os.opendir)
    IN IF m2.rv # -1
       THEN LET dir == m2.rv
                m3 == ReadDirLoop(m2, dir, os.entries, os.printf)
            IN sys_close(m3, "closedir", dir, 0)
       ELSE m2

\* OpenFailed with the close() left out: the descriptor leaks.
OpenFailed_NoClose(m, format, os) ==
    LET m1 == PlatShowMessage(m, format, <<m.errno>>, <<>>, os.printf)
        m3 == [m1 EXCEPT !.ComPortHandle = -1]
    IN Return(m3, m3.errno)

\* OpenFailed with "ComPortHandle = -1" left out: the handle dangles.
OpenFailed_KeepsHandle(m, format, os) ==
    LET m1 == PlatShowMessage(m, format, <<m.errno>>, <<>>, os.printf)
        m2 == sys_close(m1, "close", m1.ComPortHandle, os.close)
    IN Return(m2, m2.errno)

\* A failure after the low-level open: report (errno is read for the message
\* before PlatShowMessage runs), close, forget the handle, return errno as it
\* is after those calls.
OpenFailed(m, format, os) ==
    LET m1 == PlatShowMessage(m, format, <<m.errno>>, <<>>, os.printf)
        m2 == sys_close(m1, "close", m1.ComPortHandle, os.close)
        m3 == [m2 EXCEPT !.ComPortHandle = -1]
    IN Return(m3, m3.errno)

\* tcgetattr: on success the line's attributes are stored in options.
sys_tcgetattr(m, fd, current, e) ==
    LET m1 == sys_ctl(m, "tcgetattr", fd, 0, e)
    IN IF m1.rv = 0 THEN [m1 EXCEPT !.options = current] ELSE m1

\* tcsetattr: on success the line takes the attributes in options.
sys_tcsetattr(m, fd, when, options, e) ==
    LET m1 == sys_ctl(m, "tcsetattr", fd, when, e)
    IN IF m1.rv = 0 THEN [m1 EXCEPT !.line = options] ELSE m1

ConfigurePort(m, os) ==
    LET m1 == PlatShowMessage(m, "COM port opened successfully.\n", <<>>, <<>>, os.printf)
        m2 == sys_ctl(m1, "fcntl", m1.ComPortHandle, 0, 0)     \* F_SETFL, 0; result unused
        m3 == sys_tcgetattr(m2, m2.ComPortHandle, os.termios, os.tcgetattr)
    IN IF m3.rv = -1
       THEN OpenFailed(m3, "Failed to get terminal attributes. Error code: %d\n", os)
       ELSE LET m4 == sys_tcsetattr(m3, m3.ComPortHandle, TCSANOW,
                                    PortConfig(m3.options), os.tcsetattr)
            IN IF m4.rv = -1
               THEN OpenFailed(m4, "Failed to set terminal attributes. Error code: %d\n", os)
               ELSE LET m5 == sys_ctl(m4, "tcflush", m4.ComPortHandle, TCIOFLUSH, os.tcflush)
                    IN IF m5.rv = -1
                       THEN OpenFailed(m5, "Failed to flush terminal I/O. Error code: %d\n", os)
                       ELSE LET m6 == [m5 EXCEPT !.RxTimeout = MECHA_TASK_NORMAL_TO]
                                m7 == PlatShowMessage(m6, "COM port configuration set.\n",
                                                      <<>>, <<>>, os.printf)
                            IN Return(m7, 0)

\* The branch taken when no port is open.
OpenFromClosed(m, device, os) ==
    LET m1 == ListSerialDevices(m, os)
        m2 == PlatShowMessage(m1, "Opening COM port: %s\n", <<>>, device, os.printf)
        m3 == sys_open(m2, "open", os.open)
        m4 == [m3 EXCEPT !.ComPortHandle = m3.rv]
    IN IF m4.ComPortHandle # -1
       THEN ConfigurePort(m4, os)
       ELSE LET result == m4.errno
            IN Return(PlatShowMessage(m4, "Failed to open COM port. Error code: %d\n",
                                      <<result>>, <<>>, os.printf), result)

\* PlatOpenCOMPort without the "ComPortHandle == -1" test.
PlatOpenCOMPort_NoCheck(m, device, os) == OpenFromClosed(m, device, os)

PlatOpenCOMPort(m, device, os) ==
    IF m.ComPortHandle = -1
    THEN OpenFromClosed(m, device, os)
    ELSE Return(PlatShowMessage(m, "COM port is already open.\n", <<>>, <<>>, os.printf),
                EMFILE)

\* PlatOpenCOMPort in the three steps other threads can come between: the
\* test of line 26; the listing and "ComPortHandle = open(...)"; and the
\* rest, from the test of line 58, which reads ComPortHandle again.
OpenTest_Always(m) == TRUE

OpenTest(m) == m.ComPortHandle = -1

OpenRejected(m, os) ==
    Return(PlatShowMessage(m, "COM port is already open.\n", <<>>, <<>>, os.printf), EMFILE)

OpenAssign(m, device, os) ==
    LET m1 == ListSerialDevices(m, os)
        m2 == PlatShowMessage(m1, "Opening COM port: %s\n", <<>>, device, os.printf)
        m3 == sys_open(m2, "open", os.open)
    IN [m3 EXCEPT !.ComPortHandle = m3.rv]

OpenAfterAssign(m, os) ==
    IF m.ComPortHandle # -1
    THEN ConfigurePort(m, os)
    ELSE LET result == m.errno
         IN Return(PlatShowMessage(m, "Failed to open COM port. Error code: %d\n",
                                   <<result>>, <<>>, os.printf), result)

(***************************************************************************)
(* PlatReadCOMPort.  os.select is "ready", "timeout" or "error"; os.rx is  *)
(* what the line holds when read is called (empty: end of file), os.read   *)
(* the errno of a failing read.                                            *)
(***************************************************************************)
sys_select(m, fd, usec, outcome) ==
    IF outcome = "ready" THEN Sys(m, "select", fd, usec, 1, 0)
    ELSE IF outcome = "timeout" THEN Sys(m, "select", fd, usec, 0, 0)
    ELSE Sys(m, "select", fd, usec, -1, EINTR)

sys_read(m, fd, n, rx, e) ==
    IF fd \notin m.fds THEN Sys(m, "read", fd, n, -1, EBADF)
    ELSE IF e # 0 THEN Sys(m, "read", fd, n, -1, e)
    ELSE LET k == Min(n, Len(rx))
         IN [Sys(m, "read", fd, n, k, 0) EXCEPT
                !.buffer = SubSeq(rx, 1, k) \o SubSeq(@, k + 1, Len(@))]

\* The timeval with tv_usec = timeout % 1000, the conversion to microseconds
\* left out.
Timeval_NoScale(timeout) ==
    [tv_sec |-> timeout \div 1000, tv_usec |-> timeout % 1000]

\* struct timeval tv for a timeout in milliseconds.
Timeval(timeout) ==
    [tv_sec |-> timeout \div 1000, tv_usec |-> (timeout % 1000) * 1000]

\* The read-failure branch made to give the port up as well.
ReadFailed_Closes(m, os) ==
    LET m1 == PlatShowMessage(m, "Read from COM port failed.\n", <<>>, <<>>, os.printf)
        m2 == sys_close(m1, "close", m1.ComPortHandle, 0)
    IN [m2 EXCEPT !.ComPortHandle = -1]

\* The branch taken when read() fails.
ReadFailed(m, os) ==
    PlatShowMessage(m, "Read from COM port failed.\n", <<>>, <<>>, os.printf)

\* ReadOpenPort with a timeout reported as an error.
ReadOpenPort_TimeoutIsError(m, n, timeout, os) ==
    LET tv == Timeval(timeout)
        m1 == sys_select(m, m.ComPortHandle, tv.tv_sec * 1000000 + tv.tv_usec, os.select)
    IN IF m1.rv > 0
       THEN LET m2 == sys_read(m1, m1.ComPortHandle, n, os.rx, os.read)
                result == m2.rv
            IN IF result < 0
               THEN Return(ReadFailed(m2, os), result)
               ELSE Return(m2, result)
       ELSE IF m1.rv = 0
       THEN Return(PlatShowMessage(m1, "Read from COM port timed out.\n",
                                   <<>>, <<>>, os.printf), -1)
       ELSE Return(PlatShowMessage(m1, "Select function error.\n",
                                   <<>>, <<>>, os.printf), m1.rv)

\* The part of PlatReadCOMPort past the "is a port open" test.
ReadOpenPort(m, n, timeout, os) ==
    LET tv == Timeval(timeout)
        m1 == sys_select(m, m.ComPortHandle, tv.tv_sec * 1000000 + tv.tv_usec, os.select)
    IN IF m1.rv > 0
       THEN LET m2 == sys_read(m1, m1.ComPortHandle, n, os.rx, os.read)
                result == m2.rv
            IN IF result < 0
               THEN Return(ReadFailed(m2, os), result)
               ELSE Return(m2, result)
       ELSE IF m1.rv = 0
       THEN Return(PlatShowMessage(m1, "Read from COM port timed out.\n",
                                   <<>>, <<>>, os.printf), m1.rv)
       ELSE Return(PlatShowMessage(m1, "Select function error.\n",
                                   <<>>, <<>>, os.printf), m1.rv)

\* PlatReadCOMPort without the "ComPortHandle == -1" test.
PlatReadCOMPort_NoCheck(m, n, timeout, os) == ReadOpenPort(m, n, timeout, os)

PlatReadCOMPort(m, n, timeout, os) ==
    IF m.ComPortHandle = -1
    THEN Return(PlatShowMessage(m, "COM port is not open.\n", <<>>, <<>>, os.printf), -1)
    ELSE ReadOpenPort(m, n, timeout, os)

(***************************************************************************)
(* PlatWriteCOMPort.  os.room is how many bytes the OS accepts at most,    *)
(* os.write the errno of a failing write.                                  *)
(***************************************************************************)
sys_write(m, fd, len, room, e) ==
    IF fd \notin m.fds THEN Sys(m, "write", fd, len, -1, EBADF)
    ELSE IF e # 0 THEN Sys(m, "write", fd, len, -1, e)
    ELSE Sys(m, "write", fd, len, Min(len, room), 0)

\* PlatWriteCOMPort with a "port not open" shortcut that reports success.
PlatWriteCOMPort_Shortcut(m, data, os) ==
    IF m.ComPortHandle = -1
    THEN Return(m, 0)
    ELSE LET m1 == sys_write(m, m.ComPortHandle, strlen(data), os.room, os.write)
             result == m1.rv
             m2 == sys_ctl(m1, "tcdrain", m1.ComPortHandle, 0, os.tcdrain)
         IN IF result < 0
            THEN Return(PlatShowMessage(m2, "Write to COM port failed.\n",
                                        <<>>, <<>>, os.printf), result)
            ELSE Return(m2, result)

\* PlatWriteCOMPort with the drain's result stored over the write's.
PlatWriteCOMPort_DrainResult(m, data, os) ==
    LET m1 == sys_write(m, m.ComPortHandle, strlen(data), os.room, os.write)
        m2 == sys_ctl(m1, "tcdrain", m1.ComPortHandle, 0, os.tcdrain)
        result == m2.rv
    IN IF result < 0
       THEN Return(PlatShowMessage(m2, "Write to COM port failed.\n", <<>>, <<>>, os.printf),
                   result)
       ELSE Return(m2, result)

PlatWriteCOMPort(m, data, os) ==
    LET m1 == sys_write(m, m.ComPortHandle, strlen(data), os.room, os.write)
        result == m1.rv
        m2 == sys_ctl(m1, "tcdrain", m1.ComPortHandle, 0, os.tcdrain)
    IN IF result < 0
       THEN Return(PlatShowMessage(m2, "Write to COM port failed.\n", <<>>, <<>>, os.printf),
                   result)
       ELSE Return(m2, result)

(***************************************************************************)
(* PlatCloseCOMPort.                                                       *)
(***************************************************************************)
\* PlatCloseCOMPort with "ComPortHandle = -1" left out.
PlatCloseCOMPort_NoReset(m, os) ==
    IF m.ComPortHandle # -1
    THEN LET m1 == PlatShowMessage(m, "Closing COM port...\n", <<>>, <<>>, os.printf)
             m2 == sys_close(m1, "close", m1.ComPortHandle, os.close)
         IN Return(PlatShowMessage(m2, "COM port closed.\n", <<>>, <<>>, os.printf), 0)
    ELSE Return(PlatShowMessage(m, "COM port is already closed.\n", <<>>, <<>>, os.printf), 0)

PlatCloseCOMPort(m, os) ==
    IF m.ComPortHandle # -1
    THEN LET m1 == PlatShowMessage(m, "Closing COM port...\n", <<>>, <<>>, os.printf)
             m2 == sys_close(m1, "close", m1.ComPortHandle, os.close)
             m3 == [m2 EXCEPT !.ComPortHandle = -1]
         IN Return(PlatShowMessage(m3, "COM port closed.\n", <<>>, <<>>, os.printf), 0)
    ELSE Return(PlatShowMessage(m, "COM port is already closed.\n", <<>>, <<>>, os.printf), 0)

(***************************************************************************)
(* PlatShowEMessage, PlatShowMessageB, PlatDebugInit, PlatDebugDeinit.     *)
(***************************************************************************)
PlatShowEMessage(m, format, d, s, pe) ==
    IF format = NullFormat
    THEN [m EXCEPT !.err = Append(@, Msg("Error: format string is NULL\n", <<>>, <<>>))]
    ELSE LET m1 == [m EXCEPT !.out = Append(@, Msg(format, d, s)),
                             !.errno = IF pe # 0 THEN pe ELSE @]
         IN IF m1.DebugOutputFile # NULL
            THEN [m1 EXCEPT !.sink = Append(@, Msg(format, d, s))]
            ELSE m1

\* The arguments a second vprintf fetches from a va_list the first one has
\* used up: none when the format has no conversion; otherwise the same ones
\* (va_list passed by value) or whatever follows them (va_list passed by
\* reference), which is garbage.
Garbage == <<-1>>
SecondPass(d, garbled) == IF d # <<>> /\ garbled THEN Garbage ELSE d

\* PlatShowMessageB up to its wait for ENTER.  The result's "waits" tells
\* whether the getchar loop is entered.
PlatShowMessageB(m, format, d, s, os) ==
    IF format = NullFormat
    THEN [waits |-> FALSE,
          m |-> [m EXCEPT !.err = Append(@, Msg("Error: format string is NULL\n",
                                                <<>>, <<>>))]]
    ELSE LET m1 == [m EXCEPT !.out = Append(@, Msg(format, d, s)),
                             !.errno = IF os.printf # 0 THEN os.printf ELSE @]
             m2 == [m1 EXCEPT !.out = Append(@, Msg(format, SecondPass(d, os.garbled), s))]
             m3 == IF m2.DebugOutputFile # NULL
                   THEN [m2 EXCEPT !.sink = Append(@, Msg(format, d, s))]
                   ELSE m2
         IN [waits |-> TRUE, m |-> m3]

EOF == -1
NEWLINE == 10

\* getchar(): the next character of standard input, EOF when there is none.
getchar(in) == IF in = <<>> THEN EOF ELSE Head(in)

\* PlatDebugInit: the file name is made from the time of day, and each call
\* is taken to name a file of its own; fopen gives a stream (known here by
\* its descriptor) or NULL.
PlatDebugInit(m, os) ==
    LET m1 == sys_open(m, "fopen", os.fopen)
    IN [m1 EXCEPT !.DebugOutputFile = IF m1.rv = -1 THEN NULL ELSE m1.rv]

PlatDebugDeinit(m, os) ==
    IF m.DebugOutputFile # NULL
    THEN LET m1 == sys_close(m, "fclose", m.DebugOutputFile, os.fclose)
         IN [m1 EXCEPT !.DebugOutputFile = NULL]
    ELSE m

(***************************************************************************)
(* StringCompare.  s1 and s2 are NUL-terminated; i is where the pointers   *)
(* s1 and s2 have got to, s1char and s2char being *s1 and *s2 at the top   *)
(* of each turn of the loop.                                               *)
(***************************************************************************)
isalpha(c) == c \in 65..90 \/ c \in 97..122

\* toupper that leaves lower-case letters as they are.
toupper_Identity(c) == c

toupper(c) == IF c \in 97..122 THEN c - 32 ELSE c

RECURSIVE pstricmpFrom(_, _, _)
pstricmpFrom(s1, s2, i) ==
    IF s1[i] # 0 /\ s2[i] # 0
    THEN LET s1char == IF isalpha(s1[i]) THEN toupper(s1[i]) ELSE s1[i]
             s2char == IF isalpha(s2[i]) THEN toupper(s2[i]) ELSE s2[i]
         IN IF s1char # s2char
            THEN s1char - s2char
            ELSE pstricmpFrom(s1, s2, i + 1)
    ELSE s1[i] - s2[i]

pstricmp(s1, s2) == pstricmpFrom(s1, s2, 1)

\* The return of pstrincmp without its "len == 0" case.
pstrincmpResult_NoBound(len, s1char, s2char) == s1char - s2char

\* The value pstrincmp returns once its loop is left.
pstrincmpResult(len, s1char, s2char) == IF len = 0 THEN 0 ELSE s1char - s2char

RECURSIVE pstrincmpFrom(_, _, _, _)
pstrincmpFrom(s1, s2, i, len) ==
    IF s1[i] # 0 /\ s2[i] # 0 /\ len > 0
    THEN LET s1char == IF isalpha(s1[i]) THEN toupper(s1[i]) ELSE s1[i]
             s2char == IF isalpha(s2[i]) THEN toupper(s2[i]) ELSE s2[i]
         IN IF s1char # s2char
            THEN pstrincmpResult(len, s1char, s2char)
            ELSE pstrincmpFrom(s1, s2, i + 1, len - 1)
    ELSE pstrincmpResult(len, s1[i], s2[i])

pstrincmp(s1, s2, len) == pstrincmpFrom(s1, s2, 1, len)

(***************************************************************************)
(* Inputs: the arguments callers pass and the outcomes the OS can give.    *)
(* An outcome of a call that is not made on the path taken is fixed to its *)
(* success value, so that each behaviour of the OS is listed once.         *)
(***************************************************************************)
SeqsUpTo(S, n) == UNION {[1..k -> S] : k \in 0..n}

NoRepeat(s) == \A i, j \in 1..Len(s) : i # j => s[i] # s[j]

DEV_ttyS0 == <<47, 100, 101, 118, 47, 116, 116, 121, 83, 48>>      \* "/dev/ttyS0"
Devices == {DEV_ttyS0}

\* Names /dev can hold: "ttyS0", "ttyACM0", "sda".
DirNames == {<<116, 116, 121, 83, 48>>, <<116, 116, 121, 65, 67, 77, 48>>, <<115, 100, 97>>}
DirListings == {s \in SeqsUpTo(DirNames, MaxDir) : NoRepeat(s)}

RxBytes == {65}
TxBytes == {65}
TxStrings == {s \o <<0>> : s \in SeqsUpTo(TxBytes, MaxLen)}
Timeouts == {0, 1500, USHRT_MAX}

OpenEnvs ==
    {os \in [printf : {0, ENOTTY}, opendir : {0, ENOENT}, entries : DirListings,
             open : {0, ENOENT}, tcgetattr : {0, EIO}, tcsetattr : {0, EIO},
             tcflush : {0, EIO}, close : {0, EINTR},
             termios : {CookedTermios, PlainTermios}] :
        /\ os.opendir # 0 => os.entries = <<>>
        /\ (os.open # 0 \/ os.tcgetattr # 0) => os.termios = PlainTermios
        /\ os.open # 0 => os.tcgetattr = 0
        /\ (os.open # 0 \/ os.tcgetattr # 0) => os.tcsetattr = 0
        /\ (os.open # 0 \/ os.tcgetattr # 0 \/ os.tcsetattr # 0) => os.tcflush = 0
        /\ (os.open # 0 \/ (os.tcgetattr = 0 /\ os.tcsetattr = 0 /\ os.tcflush = 0))
              => os.close = 0}

ReadEnvs ==
    {os \in [printf : {0, ENOTTY}, select : {"ready", "timeout", "error"},
             rx : SeqsUpTo(RxBytes, BufSize), read : {0, EIO}] :
        /\ os.select # "ready" => os.read = 0
        /\ (os.select # "ready" \/ os.read # 0) => os.rx = <<>>}

WriteEnvs ==
    {os \in [printf : {0, ENOTTY}, room : 1..MaxLen, write : {0, EIO}, tcdrain : {0, EIO}] :
        os.write # 0 => os.room = 1}

CloseEnvs == [printf : {0, ENOTTY}, close : {0, EINTR}]

(***************************************************************************)
(* The state machine: one action per exported function, the calls made one *)
(* after the other by a single thread.                                     *)
(***************************************************************************)
NoMsg == Msg(NullFormat, <<>>, <<>>)

NoArgs == [device |-> <<>>, data |-> <<>>, n |-> 0, timeout |-> 0, msg |-> NoMsg]

Pre == [ComPortHandle |-> ComPortHandle, RxTimeout |-> RxTimeout, fds |-> fds,
        buffer |-> buffer, DebugOutputFile |-> DebugOutputFile, sink |-> sink,
        stdin |-> stdin]

\* The module state and the record of the call, for a call that has got to
\* machine record m.
Commit(op, args, m) ==
    /\ ComPortHandle' = m.ComPortHandle
    /\ RxTimeout' = m.RxTimeout
    /\ DebugOutputFile' = m.DebugOutputFile
    /\ errno' = m.errno
    /\ fds' = m.fds
    /\ buffer' = m.buffer
    /\ sink' = m.sink
    /\ call' = [op |-> op, args |-> args, pre |-> Pre,
                trace |-> m.trace, out |-> m.out, ret |-> m.ret, line |-> m.line]

\* The state at the return of a call that ends in machine record m.
Returns(op, args, m) ==
    /\ Commit(op, args, m)
    /\ UNCHANGED <<cmp, stdin, prompt, hist, threads>>

NoPrompt == [pc |-> "none", spins |-> 0]

Threads == 1..NThreads

\* No thread has called anything; the callers serialize their calls or not.
NoThreads(serialized) ==
    [serialized |-> serialized,
     pc |-> [t \in Threads |-> "idle"],
     errno |-> [t \in Threads |-> 0],
     ret |-> [t \in Threads |-> 0]]

\* The module as loaded: the static initialisers, nothing called yet.
Loaded ==
    /\ ComPortHandle = -1
    /\ RxTimeout = 0
    /\ DebugOutputFile = NULL
    /\ errno = 0
    /\ fds = {}
    /\ buffer = [i \in 1..BufSize |-> 0]
    /\ sink = <<>>
    /\ call = [op |-> "none", args |-> NoArgs, pre |-> Pre,
               trace |-> <<>>, out |-> <<>>, ret |-> 0, line |-> NoTermios]
    /\ prompt = NoPrompt
    /\ hist = [active |-> FALSE, reported |-> <<>>]

NoCmp == [op |-> "none", s1 |-> <<0>>, s2 |-> <<0>>, len |-> 0, ret |-> 0]

Init ==
    /\ stdin = <<>>
    /\ Loaded
    /\ cmp = NoCmp
    /\ threads = NoThreads(TRUE)

Open ==
    \E device \in Devices, os \in OpenEnvs :
        Returns("Open", [NoArgs EXCEPT !.device = device],
                PlatOpenCOMPort(Machine, device, os))

Read ==
    \E n \in 0..BufSize, timeout \in Timeouts, os \in ReadEnvs :
        Returns("Read", [NoArgs EXCEPT !.n = n, !.timeout = timeout],
                PlatReadCOMPort(Machine, n, timeout, os))

Write ==
    \E data \in TxStrings, os \in WriteEnvs :
        Returns("Write", [NoArgs EXCEPT !.data = data],
                PlatWriteCOMPort(Machine, data, os))

Close ==
    \E os \in CloseEnvs :
        Returns("Close", NoArgs, PlatCloseCOMPort(Machine, os))

Next == Open \/ Read \/ Write \/ Close

Spec == Init /\ [][Next]_vars

(***************************************************************************)
(* The string comparisons, each applied to arguments drawn from the        *)
(* strings of at most MaxStr characters over CmpChars.                     *)
(***************************************************************************)
CmpChars == {65, 97, 98, 91, 123}       \* 'A', 'a', 'b', '[', '{'
CmpStrings == {s \o <<0>> : s \in SeqsUpTo(CmpChars, MaxStr)}
CmpLens == (-1)..(MaxStr + 1)

portVars == <<ComPortHandle, RxTimeout, DebugOutputFile, errno, fds, buffer, sink, call,
              stdin, prompt, hist, threads>>

InitStr ==
    /\ stdin = <<>>
    /\ Loaded
    /\ threads = NoThreads(TRUE)
    /\ cmp \in [op : {"none"}, s1 : CmpStrings, s2 : CmpStrings, len : CmpLens, ret : {0}]

Stricmp ==
    /\ cmp.op = "none"
    /\ cmp' = [cmp EXCEPT !.op = "pstricmp", !.ret = pstricmp(cmp.s1, cmp.s2)]
    /\ UNCHANGED portVars

Strincmp ==
    /\ cmp.op = "none"
    /\ cmp' = [cmp EXCEPT !.op = "pstrincmp", !.ret = pstrincmp(cmp.s1, cmp.s2, cmp.len)]
    /\ UNCHANGED portVars

NextStr == Stricmp \/ Strincmp

SpecStr == InitStr /\ [][NextStr]_vars

(***************************************************************************)
(* The console reporter and the debug sink: PlatDebugInit, PlatDebugDeinit *)
(* and the reporting calls, made one after the other by a single thread.   *)
(* PlatShowMessageB takes a step to print and one step for each getchar;   *)
(* nothing else runs while it waits.                                       *)
(***************************************************************************)
FMT_PROMPT == "Press ENTER to continue.\n"
FMT_STATUS == "MECHA status: %d\n"
ReportMsgs == {Msg(FMT_PROMPT, <<>>, <<>>), Msg(FMT_STATUS, <<7>>, <<>>), NoMsg}
InChars == {NEWLINE, 121}               \* '\n', 'y'

ReportEnvs == [printf : {0, ENOTTY}]
PromptEnvs == [printf : {0, ENOTTY}, garbled : BOOLEAN]

Idle == prompt.pc = "none"

\* hist.reported: the non-NULL messages reported between a PlatDebugInit
\* whose fopen succeeded and the PlatDebugDeinit that follows it.
Reported(msg) ==
    IF hist.active /\ msg.fmt # NullFormat
    THEN [hist EXCEPT !.reported = Append(@, msg)]
    ELSE hist

Room == Len(hist.reported) < MaxSink /\ Len(sink) < MaxSink

InitDebug ==
    /\ stdin \in SeqsUpTo(InChars, MaxIn)
    /\ Loaded
    /\ cmp = NoCmp
    /\ threads = NoThreads(TRUE)

DebugInit ==
    /\ Idle
    /\ Cardinality(fds) < MaxOpen
    /\ \E os \in [fopen : {0, EMFILE}] :
          LET m == PlatDebugInit(Machine, os)
          IN /\ Commit("DebugInit", NoArgs, m)
             /\ hist' = [hist EXCEPT !.active = (m.rv # -1) \/ @]
    /\ UNCHANGED <<cmp, stdin, prompt, threads>>

DebugDeinit ==
    /\ Idle
    /\ \E os \in [fclose : {0, EIO}] :
          Commit("DebugDeinit", NoArgs, PlatDebugDeinit(Machine, os))
    /\ hist' = [hist EXCEPT !.active = FALSE]
    /\ UNCHANGED <<cmp, stdin, prompt, threads>>

ShowMessage ==
    /\ Idle /\ Room
    /\ \E msg \in ReportMsgs, os \in ReportEnvs :
          /\ Commit("ShowMessage", [NoArgs EXCEPT !.msg = msg],
                    PlatShowMessage(Machine, msg.fmt, msg.d, msg.s, os.printf))
          /\ hist' = Reported(msg)
    /\ UNCHANGED <<cmp, stdin, prompt, threads>>

ShowEMessage ==
    /\ Idle /\ Room
    /\ \E msg \in ReportMsgs, os \in ReportEnvs :
          /\ Commit("ShowEMessage", [NoArgs EXCEPT !.msg = msg],
                    PlatShowEMessage(Machine, msg.fmt, msg.d, msg.s, os.printf))
          /\ hist' = Reported(msg)
    /\ UNCHANGED <<cmp, stdin, prompt, threads>>

ShowMessageB ==
    /\ Idle /\ Room
    /\ \E msg \in ReportMsgs, os \in PromptEnvs :
          LET r == PlatShowMessageB(Machine, msg.fmt, msg.d, msg.s, os)
          IN /\ Commit("ShowMessageB", [NoArgs EXCEPT !.msg = msg], r.m)
             /\ hist' = Reported(msg)
             /\ prompt' = IF r.waits THEN [pc |-> "getchar", spins |-> 0] ELSE NoPrompt
    /\ UNCHANGED <<cmp, stdin, threads>>

\* One turn of "while (getchar() != '\n')".  prompt.spins is the parity of
\* the number of getchar calls that found standard input at its end.
PromptGetchar ==
    /\ prompt.pc = "getchar"
    /\ LET c == getchar(stdin)
       IN /\ stdin' = IF c = EOF THEN stdin ELSE Tail(stdin)
          /\ prompt' = IF c = NEWLINE THEN NoPrompt
                        ELSE IF c = EOF THEN [prompt EXCEPT !.spins = 1 - @]
                        ELSE prompt
    /\ UNCHANGED <<ComPortHandle, RxTimeout, DebugOutputFile, errno, fds, buffer, sink,
                   call, cmp, hist, threads>>

NextDebug ==
    \/ DebugInit \/ DebugDeinit
    \/ ShowMessage \/ ShowEMessage \/ ShowMessageB
    \/ PromptGetchar

SpecDebug == InitDebug /\ [][NextDebug]_vars

\* The thread that called PlatShowMessageB keeps running.
SpecDebugFair == SpecDebug /\ WF_vars(PromptGetchar)

(***************************************************************************)
(* PlatOpenCOMPort called by several threads on a closed transport.  errno *)
(* is each thread's own.  When the callers serialize, a thread enters only *)
(* while no other is inside the function.  PlatCloseCOMPort is called when *)
(* every thread has returned from PlatOpenCOMPort.                         *)
(***************************************************************************)
Inside(t) == threads.pc[t] \in {"open", "configure"}

MayEnter(t) == threads.serialized => \A u \in Threads \ {t} : ~Inside(u)

\* The machine as thread t sees it.
MachineOf(t) == [Machine EXCEPT !.errno = threads.errno[t]]

At(t, pc, m) ==
    [threads EXCEPT !.pc[t] = pc, !.errno[t] = m.errno,
                    !.ret[t] = IF pc = "done" THEN m.ret ELSE @]

ConcEnvs == {os \in OpenEnvs : os.printf = 0 /\ os.opendir # 0}

InitConc ==
    /\ stdin = <<>>
    /\ Loaded
    /\ cmp = NoCmp
    /\ threads \in {NoThreads(serialized) : serialized \in BOOLEAN}

ThreadTest(t) ==
    /\ threads.pc[t] = "idle"
    /\ MayEnter(t)
    /\ IF OpenTest(MachineOf(t))
       THEN /\ Commit("Open: test", NoArgs, MachineOf(t))
            /\ threads' = At(t, "open", MachineOf(t))
       ELSE \E os \in ConcEnvs :
              LET m == OpenRejected(MachineOf(t), os)
              IN /\ Commit("Open: test", NoArgs, m)
                 /\ threads' = At(t, "done", m)
    /\ UNCHANGED <<cmp, stdin, prompt, hist>>

ThreadAssign(t) ==
    /\ threads.pc[t] = "open"
    /\ \E device \in Devices, os \in ConcEnvs :
          LET m == OpenAssign(MachineOf(t), device, os)
          IN /\ Commit("Open: assign", [NoArgs EXCEPT !.device = device], m)
             /\ threads' = At(t, "configure", m)
    /\ UNCHANGED <<cmp, stdin, prompt, hist>>

ThreadConfigure(t) ==
    /\ threads.pc[t] = "configure"
    /\ \E os \in ConcEnvs :
          LET m == OpenAfterAssign(MachineOf(t), os)
          IN /\ Commit("Open: configure", NoArgs, m)
             /\ threads' = At(t, "done", m)
    /\ UNCHANGED <<cmp, stdin, prompt, hist>>

CloseWhenDone ==
    /\ \A t \in Threads : threads.pc[t] = "done"
    /\ \E os \in {e \in CloseEnvs : e.printf = 0} :
          Commit("Close", NoArgs, PlatCloseCOMPort(Machine, os))
    /\ UNCHANGED <<cmp, stdin, prompt, hist, threads>>

NextConc ==
    \/ \E t \in Threads : ThreadTest(t) \/ ThreadAssign(t) \/ ThreadConfigure(t)
    \/ CloseWhenDone

SpecConc == InitConc /\ [][NextConc]_vars

(***************************************************************************)
(* Properties.  call.pre is the state the most recent call started in,     *)
(* call.trace the OS calls it made, call.ret what it returned.             *)
(***************************************************************************)
Closed(h) == h = -1

Entries(trace, fns) == {i \in DOMAIN trace : trace[i].fn \in fns}

\* The transport state a caller can observe.
Transport == <<ComPortHandle, RxTimeout, fds>>
PreTransport == <<call.pre.ComPortHandle, call.pre.RxTimeout, call.pre.fds>>

\* C1: after any sequence of Open, Read, Write and Close calls, whatever the
\* OS answered, at most one descriptor is open, and one is open exactly when
\* ComPortHandle # -1, ComPortHandle then being that descriptor.
C1_AtMostOneDescriptor ==
    /\ Cardinality(fds) <= 1
    /\ (Cardinality(fds) = 1) <=> (ComPortHandle # -1)
    /\ ComPortHandle # -1 => fds = {ComPortHandle}

\* An Open that failed after its low-level open succeeded, following an
\* earlier successful Open and a Close.
C1_Witness ==
    /\ call.op = "Open"
    /\ call.ret # 0
    /\ call.pre.RxTimeout = MECHA_TASK_NORMAL_TO
    /\ \E i \in Entries(call.trace, {"open"}) : call.trace[i].res # -1
    /\ fds = {}

\* C2: Open called while a port is open returns EMFILE, leaves ComPortHandle
\* and RxTimeout as they were and makes no OS call at all; a Read or Write
\* that follows it works on the descriptor that was open before.
C2_RejectedOpen ==
    (call.op = "Open" /\ ~Closed(call.pre.ComPortHandle)) =>
        /\ call.ret = EMFILE
        /\ call.trace = <<>>
        /\ Transport = PreTransport

C2_ThenSameDescriptor ==
    (/\ call.op = "Open" /\ ~Closed(call.pre.ComPortHandle)
     /\ call'.op \in {"Read", "Write"}) =>
        /\ call'.trace # <<>>
        /\ \A i \in DOMAIN call'.trace : call'.trace[i].fd = call.pre.ComPortHandle
        /\ call.pre.ComPortHandle \in fds

C2_SecondOpenIsRejected == [](C2_RejectedOpen) /\ [][C2_ThenSameDescriptor]_vars

C2_Witness ==
    /\ call.op = "Open"
    /\ ~Closed(call.pre.ComPortHandle)
    /\ call.ret = EMFILE
    /\ ComPortHandle = call.pre.ComPortHandle

\* C3: an Open started with no port open that fails at any step returns
\* with ComPortHandle = -1 and every descriptor it opened closed again; and
\* any Open returns 0 exactly when the port is open because of this call.
OpenedThenClosed(trace) ==
    \A i \in Entries(trace, {"open", "opendir"}) :
        trace[i].res # -1 =>
            \E j \in Entries(trace, {"close", "closedir"}) :
                j > i /\ trace[j].fd = trace[i].res

C3_NoPartialOpen ==
    call.op = "Open" =>
        /\ (Closed(call.pre.ComPortHandle) /\ call.ret # 0) =>
              /\ ComPortHandle = -1
              /\ OpenedThenClosed(call.trace)
              /\ fds = {}
        /\ (call.ret = 0) <=>
              /\ Closed(call.pre.ComPortHandle)
              /\ ComPortHandle # -1
              /\ ComPortHandle \in fds
              /\ \E i \in Entries(call.trace, {"open"}) : call.trace[i].res = ComPortHandle

\* An Open whose tcflush failed.
C3_Witness ==
    /\ call.op = "Open"
    /\ call.ret # 0
    /\ \E i \in Entries(call.trace, {"tcflush"}) : call.trace[i].res = -1
    /\ ComPortHandle = -1

\* C4: when tcgetattr, tcsetattr or tcflush fails inside Open, Open returns
\* the errno value that failing call set.
C4_ReturnsFailingErrno ==
    call.op = "Open" =>
        \A i \in Entries(call.trace, {"tcgetattr", "tcsetattr", "tcflush"}) :
            call.trace[i].res = -1 => call.ret = call.trace[i].e

\* C5: Read with no port open returns -1 without any select or read call and
\* leaves the buffer and the transport state as they were.
C5_ReadNotOpen ==
    (call.op = "Read" /\ Closed(call.pre.ComPortHandle)) =>
        /\ call.ret = -1
        /\ call.trace = <<>>
        /\ buffer = call.pre.buffer
        /\ Transport = PreTransport

\* A Read with the longest timeout on a port that was opened and closed.
C5_Witness ==
    /\ call.op = "Read"
    /\ Closed(call.pre.ComPortHandle)
    /\ call.pre.RxTimeout = MECHA_TASK_NORMAL_TO
    /\ call.args.timeout = USHRT_MAX
    /\ call.ret = -1

\* C6: Write with no port open returns a negative value, no OS call it makes
\* accepts a byte or can wait (each is made on descriptor -1 and fails with
\* EBADF), and the state stays Closed.
C6_WriteNotOpen ==
    (call.op = "Write" /\ Closed(call.pre.ComPortHandle)) =>
        /\ call.ret < 0
        /\ \A i \in DOMAIN call.trace :
              /\ call.trace[i].fd = -1
              /\ call.trace[i].res = -1
              /\ call.trace[i].e = EBADF
        /\ Transport = PreTransport
        /\ Closed(ComPortHandle)

\* A Write of a non-empty string after a failed Open.
C6_Witness ==
    /\ call.op = "Write"
    /\ Closed(call.pre.ComPortHandle)
    /\ strlen(call.args.data) > 0
    /\ errno = EBADF
    /\ call.ret < 0

\* C7: Close in state Closed makes no OS call and leaves ComPortHandle = -1;
\* in state Opened it makes exactly one close, on the owned descriptor, and
\* sets ComPortHandle to -1 whatever close returned; a Close after a Close
\* changes nothing, and an Open after a Close is not turned away.
C7_CloseResult ==
    call.op = "Close" =>
        /\ ComPortHandle = -1
        /\ RxTimeout = call.pre.RxTimeout
        /\ Closed(call.pre.ComPortHandle) =>
              call.trace = <<>> /\ fds = call.pre.fds
        /\ ~Closed(call.pre.ComPortHandle) =>
              /\ Len(call.trace) = 1
              /\ call.trace[1].fn = "close"
              /\ call.trace[1].fd = call.pre.ComPortHandle
              /\ call.pre.ComPortHandle \notin fds

C7_CloseAfterClose ==
    call.op = "Close" =>
        /\ call'.op = "Close" => Transport' = Transport /\ call'.trace = <<>>
        /\ call'.op = "Open" => Entries(call'.trace, {"open"}) # {}

C7_CloseIdempotent == [](C7_CloseResult) /\ [][C7_CloseAfterClose]_vars

\* A Close of an open port whose close() reported an error.
C7_Witness ==
    /\ call.op = "Close"
    /\ ~Closed(call.pre.ComPortHandle)
    /\ call.trace[1].res = -1
    /\ ComPortHandle = -1

\* C8: a Read on an open port makes exactly one select, with the caller's
\* timeout, and at most one read; readable: one read, whose result is
\* returned; timed out: no read, returns 0; select failed: no read, returns a
\* negative value.
C8_SingleWaitThenRead ==
    (call.op = "Read" /\ ~Closed(call.pre.ComPortHandle)) =>
        LET tr == call.trace
        IN /\ Entries(tr, {"select"}) = {1}
           /\ tr[1].fd = call.pre.ComPortHandle
           /\ tr[1].a = call.args.timeout * 1000
           /\ tr[1].res > 0 =>
                 /\ Len(tr) = 2
                 /\ tr[2].fn = "read"
                 /\ tr[2].fd = call.pre.ComPortHandle
                 /\ tr[2].a = call.args.n
                 /\ call.ret = tr[2].res
                 /\ call.ret >= 0 \/ (call.ret < 0 /\ tr[2].e # 0)
           /\ tr[1].res = 0 => Len(tr) = 1 /\ call.ret = 0
           /\ tr[1].res < 0 => Len(tr) = 1 /\ call.ret < 0

\* A Read that filled the caller's buffer after waiting 1.5 s at most.
C8_Witness ==
    /\ call.op = "Read"
    /\ ~Closed(call.pre.ComPortHandle)
    /\ call.args.timeout % 1000 # 0
    /\ call.args.timeout \div 1000 # 0
    /\ call.ret = BufSize
    /\ buffer = [i \in 1..BufSize |-> 65]

\* C9: a Write on an open port makes exactly one write, of strlen(data)
\* bytes, then exactly one tcdrain on the same descriptor, and returns, after
\* the drain, the result of the write: the bytes accepted or a negative
\* value.
C9_WriteThenDrain ==
    (call.op = "Write" /\ ~Closed(call.pre.ComPortHandle)) =>
        LET tr == call.trace
        IN /\ Len(tr) = 2
           /\ tr[1].fn = "write" /\ tr[2].fn = "tcdrain"
           /\ tr[1].fd = call.pre.ComPortHandle
           /\ tr[2].fd = call.pre.ComPortHandle
           /\ tr[1].a = Len(call.args.data) - 1
           /\ call.ret = tr[1].res
           /\ call.ret < 0 \/ call.ret <= tr[1].a

\* A partial write whose drain failed.
C9_Witness ==
    /\ call.op = "Write"
    /\ ~Closed(call.pre.ComPortHandle)
    /\ call.ret > 0
    /\ call.ret < call.trace[1].a
    /\ call.trace[2].res = -1

\* C10: Read and Write leave ComPortHandle and RxTimeout as they were and
\* open or close no descriptor, whether they succeed or fail.
C10_IoKeepsState ==
    call.op \in {"Read", "Write"} =>
        /\ Transport = PreTransport
        /\ Entries(call.trace, {"open", "opendir", "close", "closedir"}) = {}

\* A Read on an open port whose read() failed.
C10_Witness ==
    /\ call.op = "Read"
    /\ ~Closed(call.pre.ComPortHandle)
    /\ Len(call.trace) = 2
    /\ call.ret < 0
    /\ ComPortHandle = call.pre.ComPortHandle

(***************************************************************************)
(* Properties of the string comparisons.                                   *)
(***************************************************************************)
Upper(c) == IF c >= 97 /\ c <= 122 THEN c - 32 ELSE c

\* The characters of a NUL-terminated string.
Text(s) == SubSeq(s, 1, strlen(s))

SameIgnoringCase(x, y) ==
    /\ Len(x) = Len(y)
    /\ \A i \in 1..Len(x) : Upper(x[i]) = Upper(y[i])

Prefix(x, k) == SubSeq(x, 1, Min(k, Len(x)))

STR_ABC == <<65, 66, 67, 0>>
STR_abd == <<97, 98, 100, 0>>

\* C13: pstricmp(a, b) is 0 exactly when a and b have the same length and
\* are equal once ASCII letters are upper-cased; pstricmp("ABC", "abd") is
\* negative.
C13_StricmpZeroIffSame ==
    /\ cmp.op = "pstricmp" =>
          ((cmp.ret = 0) <=> SameIgnoringCase(Text(cmp.s1), Text(cmp.s2)))
    /\ pstricmp(STR_ABC, STR_abd) < 0

\* Two different strings of full length that differ in letter case only.
C13_Witness ==
    /\ cmp.op = "pstricmp"
    /\ cmp.ret = 0
    /\ cmp.s1 # cmp.s2
    /\ strlen(cmp.s1) = MaxStr

\* C14: when the first maxLen (>= 0) byte pairs of a and b exist and match
\* ignoring case, pstrincmp(a, b, maxLen) is 0 whatever follows, so it is 0
\* for maxLen = 0; a mismatch at the maxLen-th pair gives a non-zero result.
C14_BoundReached ==
    cmp.op = "pstrincmp" =>
        LET a == Text(cmp.s1)
            b == Text(cmp.s2)
            n == cmp.len
        IN /\ (/\ n >= 0 /\ Len(a) >= n /\ Len(b) >= n
               /\ SameIgnoringCase(Prefix(a, n), Prefix(b, n))) => cmp.ret = 0
           /\ n = 0 => cmp.ret = 0
           /\ (/\ n >= 1 /\ Len(a) >= n /\ Len(b) >= n
               /\ SameIgnoringCase(Prefix(a, n - 1), Prefix(b, n - 1))
               /\ Upper(a[n]) # Upper(b[n])) => cmp.ret # 0

\* A comparison stopped by the bound in front of bytes that differ.
C14_Witness ==
    /\ cmp.op = "pstrincmp"
    /\ cmp.len >= 1
    /\ strlen(cmp.s1) > cmp.len
    /\ strlen(cmp.s2) > cmp.len
    /\ Upper(cmp.s1[cmp.len + 1]) # Upper(cmp.s2[cmp.len + 1])
    /\ cmp.ret = 0

\* C20: for every int n, pstrincmp(a, b, n) equals pstricmp of a and b cut
\* to their first max(n, 0) bytes.
C20_BoundedIsTruncated ==
    cmp.op = "pstrincmp" =>
        LET k == IF cmp.len > 0 THEN cmp.len ELSE 0
        IN cmp.ret = pstricmp(Prefix(Text(cmp.s1), k) \o <<0>>,
                              Prefix(Text(cmp.s2), k) \o <<0>>)

(***************************************************************************)
(* Properties of the port configuration and of Read's return value.        *)
(***************************************************************************)
\* The OS calls of a trace that are made on a descriptor of the port.
PortCalls(trace) ==
    SelectSeq(trace, LAMBDA c : c.fn \in {"open", "fcntl", "tcgetattr", "tcsetattr",
                                         "tcflush", "close"})

Is57600_8N1_Raw(o) ==
    /\ o.ispeed = "B57600" /\ o.ospeed = "B57600"
    /\ o.CSIZE = "CS8" /\ ~o.PARENB /\ ~o.CSTOPB
    /\ ~o.CRTSCTS /\ ~o.IXON /\ ~o.IXOFF /\ ~o.IXANY
    /\ o.lflag = {} /\ o.oflag = {}

C16_ZeroIffTimeout ==
    (call.op = "Read" /\ ~Closed(call.pre.ComPortHandle)) =>
        /\ (call.ret = 0) <=> (call.trace[1].res = 0)
        /\ call.trace[1].res > 0 => call.ret # 0

\* C16 as amended: Read returns 0 exactly when select timed out or select
\* reported the descriptor readable and the read returned 0 bytes (end of
\* file, or n = 0).
C16_ZeroIffTimeoutOrEmptyRead ==
    (call.op = "Read" /\ ~Closed(call.pre.ComPortHandle)) =>
        (call.ret = 0) <=>
            \/ call.trace[1].res = 0
            \/ /\ call.trace[1].res > 0
               /\ Len(call.trace) = 2
               /\ call.trace[2].fn = "read"
               /\ call.trace[2].res = 0

\* A Read for n > 0 bytes that returned 0 after select reported readable.
C16_Witness ==
    /\ call.op = "Read"
    /\ ~Closed(call.pre.ComPortHandle)
    /\ call.args.n > 0
    /\ call.trace[1].res > 0
    /\ call.ret = 0

(***************************************************************************)
(* The debug sink and the console reporter, under SpecDebug.  In SpecDebug *)
(* the only descriptors are those of sink files.                           *)
(***************************************************************************)
ReportOps == {"ShowMessage", "ShowEMessage", "ShowMessageB"}

Reports == call.op \in ReportOps /\ call.args.msg.fmt # NullFormat

\* C17: at most one sink file is open at any time, none is open that
\* DebugOutputFile does not refer to, and after PlatDebugDeinit every sink
\* file the module opened is closed.
C17_AtMostOneSinkOpen ==
    /\ Cardinality(fds) <= 1
    /\ fds \subseteq {DebugOutputFile}
    /\ call.op = "DebugDeinit" => fds = {}

\* C11: the sink holds exactly the messages reported while it was active
\* (after a successful PlatDebugInit, before the next PlatDebugDeinit), once
\* each and in call order; a report always reaches the console; and
\* PlatDebugDeinit without a sink does nothing.
C11_SinkMirrorsReports ==
    /\ sink = hist.reported
    /\ Reports => call.out # <<>> /\ call.out[1] = call.args.msg
    /\ (call.op = "DebugDeinit" /\ call.pre.DebugOutputFile = NULL) =>
           call.trace = <<>> /\ fds = call.pre.fds /\ sink = call.pre.sink

\* What is left of standard input after its first line.
RECURSIVE AfterLine(_)
AfterLine(in) ==
    IF in = <<>> THEN <<>>
    ELSE IF Head(in) = NEWLINE THEN Tail(in)
    ELSE AfterLine(Tail(in))

\* C12: PlatShowMessageB writes what PlatShowMessage writes, the message once
\* to the console and once to an active sink, and when it has returned it has
\* consumed standard input up to and including the first newline.
C12_PromptReportsAsReport ==
    (call.op = "ShowMessageB" /\ call.args.msg.fmt # NullFormat) =>
        /\ call.out = <<call.args.msg>>
        /\ sink = IF call.pre.DebugOutputFile # NULL
                  THEN Append(call.pre.sink, call.args.msg)
                  ELSE call.pre.sink
        /\ Idle => stdin = AfterLine(call.pre.stdin)

\* C19: a PlatShowMessageB that has started to wait eventually returns,
\* whatever standard input holds.
C19_PromptReturns == (prompt.pc = "getchar") ~> (prompt.pc = "none")

(***************************************************************************)
(* Concurrent PlatOpenCOMPort, under SpecConc.                             *)
(***************************************************************************)
Returned(t, value) == threads.pc[t] = "done" /\ threads.ret[t] = value

TwoOpened == \E t, u \in Threads : t # u /\ Returned(t, 0) /\ Returned(u, 0)

\* C18, serialized callers: never two descriptors, never a descriptor that
\* ComPortHandle does not record, never two calls that returned 0.
C18_SerializedState ==
    threads.serialized =>
        /\ Cardinality(fds) <= 1
        /\ fds \subseteq {ComPortHandle}
        /\ ~TwoOpened

\* C18: PlatCloseCOMPort closes the descriptor in ComPortHandle and no other.
C18_CloseClosesRecorded ==
    call'.op = "Close" => fds' = fds \ {ComPortHandle}

\* C18: with serialized calls to PlatOpenCOMPort the at-most-one-handle
\* invariant holds; and whatever the callers do, PlatCloseCOMPort closes no
\* descriptor but the recorded one, so an unrecorded descriptor stays open.
C18_SerializedOpensAreExclusive ==
    [](C18_SerializedState) /\ [][C18_CloseClosesRecorded]_vars

\* Without serialization: both calls returned 0, two descriptors are open and
\* ComPortHandle records one of them.
C18_Witness ==
    /\ ~threads.serialized
    /\ TwoOpened
    /\ Cardinality(fds) = 2
    /\ ComPortHandle \in fds

====
